---- MODULE Spec2Model ----
(***************************************************************************)
(* Model of metadata_extractor.py (class MetadataExtractorImproved):       *)
(* parse_comfyui_metadata, extract_video_metadata, extract_png_metadata    *)
(* and extract.                                                            *)
(*                                                                         *)
(* Python values are JSON values, tagged records:                          *)
(*   [t |-> "null"], [t |-> "int", n |-> n], [t |-> "float", h |-> h]      *)
(*   (the float h/100), [t |-> "str", s |-> characters],                   *)
(*   [t |-> "list", items |-> values] and [t |-> "dict", kv |-> entries],  *)
(*   entries being [k |-> characters, v |-> value] in insertion order.     *)
(* A Python string is the sequence of its characters, so that int(),       *)
(* float(), str.lower(), str.split(), the format specifications and the    *)
(* json module are computed on the characters.                             *)
(***************************************************************************)
EXTENDS Integers, Sequences, FiniteSets, TLC

VARIABLES
  metadata,        \* the RawRecord handed to parse_comfyui_metadata
  pc,              \* position of the running call
  idx,             \* position of the node scan in prompt_data.items()
  result,          \* the result dict of parse_comfyui_metadata
  positive_found,  \* local of parse_comfyui_metadata
  negative_found,  \* local of parse_comfyui_metadata
  exc,             \* the exception in flight, "" when there is none
  call,            \* arguments of extract and what the file system holds
  ret              \* the 9-tuple extract returned

vars == <<metadata, pc, idx, result, positive_found, negative_found, exc, call, ret>>

(***************************************************************************)
(* Bounds of the model.                                                    *)
(***************************************************************************)
MaxNodes == 3

(***************************************************************************)
(* String literals of the source.                                          *)
(***************************************************************************)
K_prompt == <<"p", "r", "o", "m", "p", "t">>
K_comment == <<"c", "o", "m", "m", "e", "n", "t">>
K_description == <<"d", "e", "s", "c", "r", "i", "p", "t", "i", "o", "n">>
K_workflow == <<"w", "o", "r", "k", "f", "l", "o", "w">>
K_video_width == <<"v", "i", "d", "e", "o", "_", "w", "i", "d", "t", "h">>
K_video_height == <<"v", "i", "d", "e", "o", "_", "h", "e", "i", "g", "h", "t">>
K_video_fps == <<"v", "i", "d", "e", "o", "_", "f", "p", "s">>
K_video_duration == <<"v", "i", "d", "e", "o", "_", "d", "u", "r", "a", "t", "i", "o", "n">>
K_inputs == <<"i", "n", "p", "u", "t", "s">>
K_class_type == <<"c", "l", "a", "s", "s", "_", "t", "y", "p", "e">>
K_text == <<"t", "e", "x", "t">>
K_noise_seed == <<"n", "o", "i", "s", "e", "_", "s", "e", "e", "d">>
K_sampler_name == <<"s", "a", "m", "p", "l", "e", "r", "_", "n", "a", "m", "e">>
K_steps == <<"s", "t", "e", "p", "s">>
K_cfg == <<"c", "f", "g">>
CLIPTextEncode == <<"C", "L", "I", "P", "T", "e", "x", "t", "E", "n", "c", "o", "d", "e">>
CLIPTextEncodeSDXL == <<"C", "L", "I", "P", "T", "e", "x", "t", "E", "n", "c", "o", "d", "e", "S", "D", "X", "L">>
CLIPTextEncodeFlux == <<"C", "L", "I", "P", "T", "e", "x", "t", "E", "n", "c", "o", "d", "e", "F", "l", "u", "x">>
RandomNoise == <<"R", "a", "n", "d", "o", "m", "N", "o", "i", "s", "e">>
KSamplerSelect == <<"K", "S", "a", "m", "p", "l", "e", "r", "S", "e", "l", "e", "c", "t">>
LTXVScheduler == <<"L", "T", "X", "V", "S", "c", "h", "e", "d", "u", "l", "e", "r">>
BasicScheduler == <<"B", "a", "s", "i", "c", "S", "c", "h", "e", "d", "u", "l", "e", "r">>
KScheduler == <<"K", "S", "c", "h", "e", "d", "u", "l", "e", "r">>
CFGGuider == <<"C", "F", "G", "G", "u", "i", "d", "e", "r">>
DualCFGGuider == <<"D", "u", "a", "l", "C", "F", "G", "G", "u", "i", "d", "e", "r">>
PNG_IMAGE == <<"P", "N", "G", " ", "I", "m", "a", "g", "e">>
FILE_NOT_FOUND == <<"F", "i", "l", "e", " ", "n", "o", "t", " ", "f", "o", "u", "n", "d">>
NO_METADATA_FOUND == <<"N", "o", " ", "m", "e", "t", "a", "d", "a", "t", "a", " ", "f", "o", "u", "n", "d">>
UNSUPPORTED == <<"U", "n", "s", "u", "p", "p", "o", "r", "t", "e", "d", ":", " ">>
FPS_SUFFIX == <<" ", "F", "P", "S">>
SEP == <<" ", "|", " ">>
EMPTY_JSON == <<"{", "}">>
NULL_LIT == <<"n", "u", "l", "l">>

(***************************************************************************)
(* JSON values.                                                            *)
(***************************************************************************)
JNull == [t |-> "null"]
JInt(n) == [t |-> "int", n |-> n]
JFloat(h) == [t |-> "float", h |-> h]
JStr(cs) == [t |-> "str", s |-> cs]
JList(xs) == [t |-> "list", items |-> xs]
JDict(entries) == [t |-> "dict", kv |-> entries]
KV(key, val) == [k |-> key, v |-> val]

(***************************************************************************)
(* Python's dict operations, truth value and exceptions.  An operation     *)
(* that can raise yields [ok |-> TRUE, v |-> value] or                     *)
(* [ok |-> FALSE, exc |-> the exception's class].                          *)
(***************************************************************************)
Ok(val) == [ok |-> TRUE, v |-> val]
Raise(e) == [ok |-> FALSE, exc |-> e]

IsDict(x) == x.t = "dict"
IsList(x) == x.t = "list"

\* key in d, for a dict d
HasKey(d, key) == \E i \in 1..Len(d.kv) : d.kv[i].k = key

\* d[key], for a dict d that has the key
Item(d, key) == d.kv[CHOOSE i \in 1..Len(d.kv) : d.kv[i].k = key].v

\* d.get(key, default), for a dict d
DictGet(d, key, default) == IF HasKey(d, key) THEN Item(d, key) ELSE default

\* d[key] = val: a present key keeps its position, a new key is appended
SetItem(d, key, val) ==
  IF HasKey(d, key)
  THEN JDict([i \in 1..Len(d.kv) |-> IF d.kv[i].k = key THEN KV(key, val) ELSE d.kv[i]])
  ELSE JDict(Append(d.kv, KV(key, val)))

\* bool(x)
Truthy(x) ==
  CASE x.t = "null" -> FALSE
    [] x.t = "int" -> x.n # 0
    [] x.t = "float" -> x.h # 0
    [] x.t = "str" -> Len(x.s) > 0
    [] x.t = "list" -> Len(x.items) > 0
    [] x.t = "dict" -> Len(x.kv) > 0

(***************************************************************************)
(* Characters, int(), float(), str() and the format specification .2f.     *)
(***************************************************************************)
Digits == <<"0", "1", "2", "3", "4", "5", "6", "7", "8", "9">>
IsDigit(c) == \E d \in 1..10 : Digits[d] = c
DigitVal(c) == (CHOOSE d \in 1..10 : Digits[d] = c) - 1
IsSpace(c) == c \in {" ", "\n"}
AllDigits(cs) == Len(cs) > 0 /\ \A i \in 1..Len(cs) : IsDigit(cs[i])

RECURSIVE DigitsVal(_)
DigitsVal(cs) ==
  IF Len(cs) = 0 THEN 0
  ELSE 10 * DigitsVal(SubSeq(cs, 1, Len(cs) - 1)) + DigitVal(cs[Len(cs)])

RECURSIVE NatChars(_)
NatChars(n) ==
  IF n < 10 THEN <<Digits[n + 1]>>
  ELSE Append(NatChars(n \div 10), Digits[(n % 10) + 1])

Abs(n) == IF n < 0 THEN 0 - n ELSE n
SignChars(n) == IF n < 0 THEN <<"-">> ELSE <<>>

\* str(n) of an int
IntChars(n) == SignChars(n) \o NatChars(Abs(n))

\* format(x, ".2f") of the float h/100
Fixed2Chars(h) ==
  SignChars(h) \o NatChars(Abs(h) \div 100) \o <<".">>
    \o <<Digits[((Abs(h) % 100) \div 10) + 1], Digits[(Abs(h) % 10) + 1]>>

\* repr(x) of the float h/100: the shortest digits that give the float back
FloatChars(h) ==
  SignChars(h) \o NatChars(Abs(h) \div 100) \o <<".">>
    \o (IF Abs(h) % 10 = 0
        THEN <<Digits[((Abs(h) % 100) \div 10) + 1]>>
        ELSE <<Digits[((Abs(h) % 100) \div 10) + 1], Digits[(Abs(h) % 10) + 1]>>)

RECURSIVE Strip(_)
Strip(cs) ==
  IF Len(cs) = 0 THEN cs
  ELSE IF IsSpace(cs[1]) THEN Strip(Tail(cs))
  ELSE IF IsSpace(cs[Len(cs)]) THEN Strip(SubSeq(cs, 1, Len(cs) - 1))
  ELSE cs

HasSign(cs) == Len(cs) > 0 /\ cs[1] \in {"-", "+"}
Unsigned(cs) == IF HasSign(cs) THEN Tail(cs) ELSE cs
Signed(cs, n) == IF Len(cs) > 0 /\ cs[1] = "-" THEN 0 - n ELSE n

\* int(s) of a str without blanks around it: optional sign, decimal digits
StrippedToInt(body) ==
  IF AllDigits(Unsigned(body))
  THEN Ok(Signed(body, DigitsVal(Unsigned(body))))
  ELSE Raise("ValueError")

\* int(s) of a str
StrToInt(cs) == StrippedToInt(Strip(cs))

\* position of the first "." of cs, 0 when there is none
DotPos(cs) ==
  IF \E i \in 1..Len(cs) : cs[i] = "."
  THEN CHOOSE i \in 1..Len(cs) : cs[i] = "." /\ \A j \in 1..(i - 1) : cs[j] # "."
  ELSE 0

\* the hundredths a fraction's digits stand for
Hundredths(frac) ==
  IF Len(frac) = 0 THEN 0
  ELSE IF Len(frac) = 1 THEN 10 * DigitsVal(frac)
  ELSE DigitsVal(SubSeq(frac, 1, 2))

\* the float, in hundredths, of the digits whole "." frac; the third and
\* later digits of a fraction are zeros in the model's inputs, and
\* exponents, inf and nan are not among them
DecimalToFloat(whole, frac) ==
  IF AllDigits(whole \o frac) /\ \A i \in 3..Len(frac) : frac[i] = "0"
  THEN Ok(100 * DigitsVal(whole) + Hundredths(frac))
  ELSE Raise("ValueError")

\* float of an unsigned str whose first "." is at position dot
UnsignedToFloat(body, dot) ==
  IF dot = 0 THEN DecimalToFloat(body, <<>>)
  ELSE DecimalToFloat(SubSeq(body, 1, dot - 1), SubSeq(body, dot + 1, Len(body)))

Negated(r) == IF r.ok THEN Ok(0 - r.v) ELSE r

\* float(s) of a str without blanks around it
StrippedToFloat(body) ==
  IF Len(body) > 0 /\ body[1] = "-"
  THEN Negated(UnsignedToFloat(Tail(body), DotPos(Tail(body))))
  ELSE UnsignedToFloat(Unsigned(body), DotPos(Unsigned(body)))

\* float(s) of a str
StrToFloat(cs) == StrippedToFloat(Strip(cs))

\* int(x)
PyInt(x) ==
  CASE x.t = "int" -> Ok(x.n)
    [] x.t = "float" -> Ok(IF x.h < 0 THEN 0 - ((0 - x.h) \div 100) ELSE x.h \div 100)
    [] x.t = "str" -> StrToInt(x.s)
    [] OTHER -> Raise("TypeError")

\* float(x), in hundredths
PyFloat(x) ==
  CASE x.t = "int" -> Ok(100 * x.n)
    [] x.t = "float" -> Ok(x.h)
    [] x.t = "str" -> StrToFloat(x.s)
    [] OTHER -> Raise("TypeError")

\* str(x), as an f-string renders {x}, for the scalars a record field holds
PyStr(x) ==
  CASE x.t = "int" -> IntChars(x.n)
    [] x.t = "float" -> FloatChars(x.h)
    [] x.t = "str" -> x.s
    [] x.t = "null" -> <<"N", "o", "n", "e">>

\* format(x, ".2f"), as an f-string renders {x:.2f}
PyFormat2f(x) ==
  CASE x.t = "int" -> Ok(Fixed2Chars(100 * x.n))
    [] x.t = "float" -> Ok(Fixed2Chars(x.h))
    [] x.t = "str" -> Raise("ValueError")
    [] OTHER -> Raise("TypeError")

(***************************************************************************)
(* json.dumps(x, indent=2): one entry per line, nested levels indented by  *)
(* two blanks, "{}" and "[]" for the empty containers.  In a string the    *)
(* quote, the backslash and the newline are escaped (the model's strings   *)
(* hold no other character that json escapes).                             *)
(***************************************************************************)
Quote == "\""
NL == "\n"
Backslash == "\\"

EscapeChar(c) ==
  IF c = Quote THEN <<Backslash, Quote>>
  ELSE IF c = Backslash THEN <<Backslash, Backslash>>
  ELSE IF c = NL THEN <<Backslash, "n">>
  ELSE <<c>>

\* the escaped characters of cs, halving cs rather than walking it
RECURSIVE Escape(_)
Escape(cs) ==
  IF Len(cs) = 0 THEN <<>>
  ELSE IF Len(cs) = 1 THEN EscapeChar(cs[1])
  ELSE Escape(SubSeq(cs, 1, Len(cs) \div 2)) \o Escape(SubSeq(cs, (Len(cs) \div 2) + 1, Len(cs)))

\* a string between quotes
Quoted(cs) == <<Quote>> \o Escape(cs) \o <<Quote>>

RECURSIVE Blanks(_)
Blanks(n) == IF n = 0 THEN <<>> ELSE Append(Blanks(n - 1), " ")

RECURSIVE JsonDumps(_, _), DumpItems(_, _, _), DumpEntries(_, _, _)

\* the items xs[i..] of a list at nesting level d, separated by ",\n"
DumpItems(xs, i, d) ==
  IF i > Len(xs) THEN <<>>
  ELSE Blanks(2 * d) \o JsonDumps(xs[i], d)
       \o (IF i < Len(xs) THEN <<",", NL>> ELSE <<NL>>)
       \o DumpItems(xs, i + 1, d)

\* the entries kv[i..] of a dict at nesting level d
DumpEntries(kv, i, d) ==
  IF i > Len(kv) THEN <<>>
  ELSE Blanks(2 * d) \o Quoted(kv[i].k) \o <<":", " ">>
       \o JsonDumps(kv[i].v, d)
       \o (IF i < Len(kv) THEN <<",", NL>> ELSE <<NL>>)
       \o DumpEntries(kv, i + 1, d)

JsonDumps(x, d) ==
  CASE x.t = "null" -> NULL_LIT
    [] x.t = "int" -> IntChars(x.n)
    [] x.t = "float" -> FloatChars(x.h)
    [] x.t = "str" -> Quoted(x.s)
    [] x.t = "list" ->
         IF Len(x.items) = 0 THEN <<"[", "]">>
         ELSE <<"[", NL>> \o DumpItems(x.items, 1, d + 1) \o Blanks(2 * d) \o <<"]">>
    [] x.t = "dict" ->
         IF Len(x.kv) = 0 THEN <<"{", "}">>
         ELSE <<"{", NL>> \o DumpEntries(x.kv, 1, d + 1) \o Blanks(2 * d) \o <<"}">>

(***************************************************************************)
(* json.loads(text): a recursive-descent parser of the characters.  A      *)
(* parse yields [ok |-> TRUE, v |-> value, pos |-> next position] or       *)
(* [ok |-> FALSE].                                                         *)
(***************************************************************************)
Parsed(val, next) == [ok |-> TRUE, v |-> val, pos |-> next]
NoParse == [ok |-> FALSE]

RECURSIVE SkipWs(_, _)
SkipWs(cs, i) == IF i <= Len(cs) /\ IsSpace(cs[i]) THEN SkipWs(cs, i + 1) ELSE i

RECURSIVE DigitsEnd(_, _)
DigitsEnd(cs, i) == IF i <= Len(cs) /\ IsDigit(cs[i]) THEN DigitsEnd(cs, i + 1) ELSE i

\* the number of consecutive backslashes that end at cs[j], not before lo
RECURSIVE BackslashRun(_, _, _)
BackslashRun(cs, j, lo) ==
  IF j >= lo /\ cs[j] = Backslash THEN 1 + BackslashRun(cs, j - 1, lo) ELSE 0

\* cs[j] follows a backslash that starts an escape, in a string body that
\* starts at lo
IsEscaped(cs, j, lo) == BackslashRun(cs, j - 1, lo) % 2 = 1

\* cs[j] closes the string whose body starts at lo
IsClosing(cs, j, lo) == cs[j] = Quote /\ ~IsEscaped(cs, j, lo)

\* the characters cs[lo..j-1] of a string body, each marked as escaped or not
Marked(cs, lo, j) ==
  [p \in 1..(j - lo) |-> [c |-> cs[lo + p - 1], esc |-> IsEscaped(cs, lo + p - 1, lo)]]

\* the backslash that starts an escape is dropped
IsKept(m) == m.c # Backslash \/ m.esc

\* an escaped n is a newline, any other kept character is itself
DecodeKept(kept) ==
  [q \in 1..Len(kept) |-> IF kept[q].esc /\ kept[q].c = "n" THEN NL ELSE kept[q].c]

\* the body cs[lo..j-1] of a string, decoded; a raw newline or an escape
\* other than \", \\ and \n is not in a string of the model
StringBody(cs, lo, j) ==
  IF \A p \in lo..(j - 1) :
       /\ cs[p] # NL
       /\ IsEscaped(cs, p, lo) => cs[p] \in {Quote, Backslash, "n"}
  THEN Parsed(DecodeKept(SelectSeq(Marked(cs, lo, j), IsKept)), j + 1)
  ELSE NoParse

\* the characters of a string starting at the quote cs[i], up to the first
\* quote that is not escaped
ParseString(cs, i) ==
  IF \E j \in (i + 1)..Len(cs) : IsClosing(cs, j, i + 1)
  THEN StringBody(cs, i + 1,
         CHOOSE j \in (i + 1)..Len(cs) :
           IsClosing(cs, j, i + 1) /\ \A m \in (i + 1)..(j - 1) : ~IsClosing(cs, m, i + 1))
  ELSE NoParse

\* a number -?(0|[1-9][0-9]*)(\.[0-9]+)? starting at cs[i].  Its integer
\* digits are cs[b..e-1]; with a fraction cs[e+1..f-1] it is a float (of at
\* most two decimals in the model), without one an int.
NumberValue(cs, neg, b, e, f) ==
  IF e = b \/ (e - b > 1 /\ cs[b] = "0") THEN NoParse
  ELSE IF f = e
    THEN Parsed(JInt(IF neg THEN 0 - DigitsVal(SubSeq(cs, b, e - 1))
                     ELSE DigitsVal(SubSeq(cs, b, e - 1))), e)
  ELSE IF f = e + 1 \/ f > e + 3 THEN NoParse
  ELSE Parsed(JFloat(IF neg
                     THEN 0 - (100 * DigitsVal(SubSeq(cs, b, e - 1))
                                 + Hundredths(SubSeq(cs, e + 1, f - 1)))
                     ELSE 100 * DigitsVal(SubSeq(cs, b, e - 1))
                            + Hundredths(SubSeq(cs, e + 1, f - 1))), f)

NumberFrom(cs, neg, b, e) ==
  IF e <= Len(cs) /\ cs[e] = "."
  THEN NumberValue(cs, neg, b, e, DigitsEnd(cs, e + 1))
  ELSE NumberValue(cs, neg, b, e, e)

ParseNumber(cs, i) ==
  IF cs[i] = "-" THEN NumberFrom(cs, TRUE, i + 1, DigitsEnd(cs, i + 1))
  ELSE NumberFrom(cs, FALSE, i, DigitsEnd(cs, i))

RECURSIVE ParseValue(_, _), ParseItems(_, _, _), ParseEntries(_, _, _)

\* after the item of a list, n being the position of the next token
AfterItem(cs, acc, item, n) ==
  IF n > Len(cs) THEN NoParse
  ELSE IF cs[n] = "]" THEN Parsed(JList(Append(acc, item.v)), n + 1)
  ELSE IF cs[n] = "," THEN ParseItems(cs, SkipWs(cs, n + 1), Append(acc, item.v))
  ELSE NoParse

ItemParsed(cs, acc, item) ==
  IF item.ok THEN AfterItem(cs, acc, item, SkipWs(cs, item.pos)) ELSE NoParse

\* the items of a list after "[" or ",", cs[i] being the next item
ParseItems(cs, i, acc) == ItemParsed(cs, acc, ParseValue(cs, i))

\* after the value of an entry, n being the position of the next token; a
\* repeated key keeps its last value
AfterEntry(cs, acc, n) ==
  IF n > Len(cs) THEN NoParse
  ELSE IF cs[n] = "}" THEN Parsed(acc, n + 1)
  ELSE IF cs[n] = "," THEN ParseEntries(cs, SkipWs(cs, n + 1), acc)
  ELSE NoParse

EntryParsed(cs, acc, key, val) ==
  IF val.ok THEN AfterEntry(cs, SetItem(acc, key.v, val.v), SkipWs(cs, val.pos))
  ELSE NoParse

\* after the key of an entry, c being the position of the next token
AfterKey(cs, acc, key, c) ==
  IF c <= Len(cs) /\ cs[c] = ":"
  THEN EntryParsed(cs, acc, key, ParseValue(cs, SkipWs(cs, c + 1)))
  ELSE NoParse

KeyParsed(cs, acc, key) ==
  IF key.ok THEN AfterKey(cs, acc, key, SkipWs(cs, key.pos)) ELSE NoParse

\* the entries of a dict after "{" or ",", cs[i] being the next key's quote
ParseEntries(cs, i, acc) ==
  IF i <= Len(cs) /\ cs[i] = Quote THEN KeyParsed(cs, acc, ParseString(cs, i))
  ELSE NoParse

\* a dict after its "{", n being the position of the next token
DictFrom(cs, n) ==
  IF n <= Len(cs) /\ cs[n] = "}" THEN Parsed(JDict(<<>>), n + 1)
  ELSE ParseEntries(cs, n, JDict(<<>>))

\* a list after its "[", n being the position of the next token
ListFrom(cs, n) ==
  IF n <= Len(cs) /\ cs[n] = "]" THEN Parsed(JList(<<>>), n + 1)
  ELSE ParseItems(cs, n, <<>>)

StringValue(r) == IF r.ok THEN Parsed(JStr(r.v), r.pos) ELSE NoParse

\* the value starting at cs[i]
ParseValue(cs, i) ==
  IF i > Len(cs) THEN NoParse
  ELSE IF cs[i] = "{" THEN DictFrom(cs, SkipWs(cs, i + 1))
  ELSE IF cs[i] = "[" THEN ListFrom(cs, SkipWs(cs, i + 1))
  ELSE IF cs[i] = Quote THEN StringValue(ParseString(cs, i))
  ELSE IF cs[i] = "-" \/ IsDigit(cs[i]) THEN ParseNumber(cs, i)
  ELSE IF i + 3 <= Len(cs) /\ SubSeq(cs, i, i + 3) = NULL_LIT THEN Parsed(JNull, i + 4)
  ELSE NoParse

\* the whole text is one value, blanks aside
WholeText(cs, r) ==
  IF r.ok /\ SkipWs(cs, r.pos) > Len(cs) THEN Ok(r.v) ELSE Raise("ValueError")

\* json.loads(text): JSONDecodeError is a ValueError
JsonLoads(cs) == WholeText(cs, ParseValue(cs, SkipWs(cs, 1)))

(***************************************************************************)
(* Python's operations on a value of any type: x.get(key, default),        *)
(* key in x, x[key], x[0], len(x), x.items().                              *)
(***************************************************************************)
\* x.get(key, default): only a dict has the method
PyGet(x, key, default) ==
  IF IsDict(x) THEN Ok(DictGet(x, key, default)) ELSE Raise("AttributeError")

IsSubstring(key, cs) ==
  \E i \in 1..(Len(cs) - Len(key) + 1) : SubSeq(cs, i, i + Len(key) - 1) = key

\* key in x: a key of a dict, a substring of a str, an item of a list
PyContains(x, key) ==
  CASE x.t = "dict" -> Ok(HasKey(x, key))
    [] x.t = "str" -> Ok(IsSubstring(key, x.s))
    [] x.t = "list" -> Ok(\E i \in 1..Len(x.items) : x.items[i] = JStr(key))
    [] OTHER -> Raise("TypeError")

\* x[key] for a str key
PySubscript(x, key) ==
  IF IsDict(x)
  THEN (IF HasKey(x, key) THEN Ok(Item(x, key)) ELSE Raise("KeyError"))
  ELSE Raise("TypeError")

\* x[0]
PyFirst(x) ==
  CASE x.t = "list" -> IF Len(x.items) > 0 THEN Ok(x.items[1]) ELSE Raise("IndexError")
    [] x.t = "str" -> IF Len(x.s) > 0 THEN Ok(JStr(<<x.s[1]>>)) ELSE Raise("IndexError")
    [] x.t = "dict" -> Raise("KeyError")
    [] OTHER -> Raise("TypeError")

\* len(x)
PyLen(x) ==
  CASE x.t = "dict" -> Ok(Len(x.kv))
    [] x.t = "list" -> Ok(Len(x.items))
    [] x.t = "str" -> Ok(Len(x.s))
    [] OTHER -> Raise("TypeError")

\* x.items()
PyItems(x) == IF IsDict(x) THEN Ok(x.kv) ELSE Raise("AttributeError")

(***************************************************************************)
(* parse_comfyui_metadata                                                  *)
(***************************************************************************)
\* the result dict at entry
DefaultResult ==
  [positive_prompt |-> JStr(<<>>),
   negative_prompt |-> JStr(<<>>),
   seed |-> JInt(0),
   steps |-> JInt(0),
   cfg |-> JFloat(0),
   sampler |-> JStr(<<>>),
   scheduler |-> JStr(<<>>),
   metadata_json |-> JStr(EMPTY_JSON),
   file_info |-> JStr(<<>>)]

ResultFields ==
  {"positive_prompt", "negative_prompt", "seed", "steps", "cfg", "sampler",
   "scheduler", "metadata_json", "file_info"}

\* the class_type lists of the node rules
TextEncodeTypes == {JStr(CLIPTextEncode), JStr(CLIPTextEncodeSDXL), JStr(CLIPTextEncodeFlux)}
SchedulerTypes == {JStr(LTXVScheduler), JStr(BasicScheduler), JStr(KScheduler)}
GuiderTypes == {JStr(CFGGuider), JStr(DualCFGGuider)}

\* prompt_data: the 'prompt' field, else a dict-valued 'comment', else None
PromptData(md) ==
  IF HasKey(md, K_prompt) THEN Item(md, K_prompt)
  ELSE IF HasKey(md, K_comment) /\ IsDict(Item(md, K_comment)) THEN Item(md, K_comment)
  ELSE JNull

\* the return of the branch "if not prompt_data"
ReturnNoGraphKeepsJson(md, res) == res

ReturnNoGraph(md, res) == [res EXCEPT !.metadata_json = JStr(JsonDumps(md, 0))]

\* len(prompt_data) of the print, then prompt_data.items()
GraphItems(prompt_data) ==
  IF PyLen(prompt_data).ok THEN PyItems(prompt_data) ELSE PyLen(prompt_data)

\* The locals of the node scan, and the outcome of a piece of it: the
\* locals it leaves, and the exception it raised, if any.
ScanState(res, pos, neg) == [result |-> res, positive_found |-> pos, negative_found |-> neg]
Out(st) == [ok |-> TRUE, exc |-> "", st |-> st]
Fail(e, st) == [ok |-> FALSE, exc |-> e, st |-> st]
Then(o, F(_)) == IF o.ok THEN F(o.st) ELSE o

\* x[key] of a container x, once "key in x" gave present
Lookup(x, key, present) ==
  IF ~present.ok THEN present
  ELSE IF present.v THEN PySubscript(x, key)
  ELSE Raise("absent")

\* int(x) and float(x) of a looked-up value
IntOf(x) == IF x.ok THEN PyInt(x.v) ELSE x
FloatOf(x) == IF x.ok THEN PyFloat(x.v) ELSE x
FirstOf(x) == IF x.ok THEN PyFirst(x.v) ELSE x

\* the first text is the positive prompt, the second the negative one
AssignPrompt(st, text_content) ==
  IF ~text_content.ok THEN Fail(text_content.exc, st)
  ELSE IF ~Truthy(text_content.v) THEN Out(st)
  ELSE IF ~st.positive_found
    THEN Out([st EXCEPT !.result.positive_prompt = text_content.v,
                        !.positive_found = TRUE])
  ELSE IF ~st.negative_found
    THEN Out([st EXCEPT !.result.negative_prompt = text_content.v,
                        !.negative_found = TRUE])
  ELSE Out(st)

\* "Extract prompts"
ExtractPrompts(st, class_type, inputs) ==
  IF class_type \in TextEncodeTypes
  THEN AssignPrompt(st, PyGet(inputs, K_text, JStr(<<>>)))
  ELSE Out(st)

\* result['seed'] = int(inputs['noise_seed'])
AssignSeed(st, n) ==
  IF n.ok THEN Out([st EXCEPT !.result.seed = JInt(n.v)]) ELSE Fail(n.exc, st)

\* the try block of the branch for a list: any failure is passed over
TryAssignSeed(st, n) ==
  IF n.ok THEN Out([st EXCEPT !.result.seed = JInt(n.v)]) ELSE Out(st)

\* "elif isinstance(inputs.get('noise_seed'), list)"
SeedFromList(st, inputs, g) ==
  IF ~g.ok THEN Fail(g.exc, st)
  ELSE IF IsList(g.v) THEN TryAssignSeed(st, IntOf(FirstOf(PySubscript(inputs, K_noise_seed))))
  ELSE Out(st)

SeedFrom(st, inputs, present) ==
  IF ~present.ok THEN Fail(present.exc, st)
  ELSE IF present.v THEN AssignSeed(st, IntOf(PySubscript(inputs, K_noise_seed)))
  ELSE SeedFromList(st, inputs, PyGet(inputs, K_noise_seed, JNull))

\* "Extract seed from RandomNoise node"
ExtractSeed(st, class_type, inputs) ==
  IF class_type = JStr(RandomNoise)
  THEN SeedFrom(st, inputs, PyContains(inputs, K_noise_seed))
  ELSE Out(st)

AssignSampler(st, sampler_name) ==
  IF ~sampler_name.ok THEN Fail(sampler_name.exc, st)
  ELSE IF Truthy(sampler_name.v) THEN Out([st EXCEPT !.result.sampler = sampler_name.v])
  ELSE Out(st)

\* "Extract sampler"
ExtractSampler(st, class_type, inputs) ==
  IF class_type = JStr(KSamplerSelect)
  THEN AssignSampler(st, PyGet(inputs, K_sampler_name, JStr(<<>>)))
  ELSE Out(st)

\* result['steps'] = int(inputs['steps']), when 'steps' in inputs
AssignSteps(st, n) ==
  IF n.ok THEN Out([st EXCEPT !.result.steps = JInt(n.v)])
  ELSE IF n.exc = "absent" THEN Out(st)
  ELSE Fail(n.exc, st)

\* "Extract steps and cfg from scheduler nodes"
ExtractSteps(st, class_type, inputs) ==
  IF class_type \in SchedulerTypes
  THEN AssignSteps(st, IntOf(Lookup(inputs, K_steps, PyContains(inputs, K_steps))))
  ELSE Out(st)

\* result['cfg'] = float(inputs['cfg']), when 'cfg' in inputs
AssignCfg(st, f) ==
  IF f.ok THEN Out([st EXCEPT !.result.cfg = JFloat(f.v)])
  ELSE IF f.exc = "absent" THEN Out(st)
  ELSE Fail(f.exc, st)

\* "Extract CFG from guider nodes"
ExtractCfg(st, class_type, inputs) ==
  IF class_type \in GuiderTypes
  THEN AssignCfg(st, FloatOf(Lookup(inputs, K_cfg, PyContains(inputs, K_cfg))))
  ELSE Out(st)

\* the five rules, in the order of the source
NodeRules(st, class_type, inputs) ==
  Then(Then(Then(Then(ExtractPrompts(st, class_type, inputs),
       LAMBDA s : ExtractSeed(s, class_type, inputs)),
       LAMBDA s : ExtractSampler(s, class_type, inputs)),
       LAMBDA s : ExtractSteps(s, class_type, inputs)),
       LAMBDA s : ExtractCfg(s, class_type, inputs))

\* the body of the loop "for node_id, node_data in prompt_data.items()"
NodeStep(st, node_data) ==
  IF ~IsDict(node_data) THEN Out(st)
  ELSE NodeRules(st, DictGet(node_data, K_class_type, JStr(<<>>)),
                 DictGet(node_data, K_inputs, JDict(<<>>)))

\* " | ".join(parts)
RECURSIVE Join(_)
Join(parts) ==
  IF Len(parts) = 0 THEN <<>>
  ELSE IF Len(parts) = 1 THEN parts[1]
  ELSE parts[1] \o SEP \o Join(Tail(parts))

\* "Create file info": info_parts after each of the three tests, as
\* [ok, v] outcomes so that a KeyError or a format error ends the assembly
AppendPart(parts, part, suffix) ==
  IF ~parts.ok THEN parts
  ELSE IF part.ok THEN Ok(Append(parts.v, part.v \o suffix))
  ELSE part

\* f"{metadata['video_width']}x{metadata['video_height']}"
WidthByHeight(md, h) ==
  IF h.ok THEN Ok(PyStr(Item(md, K_video_width)) \o <<"x">> \o PyStr(h.v)) ELSE h

WidthHeightPart(md, parts) ==
  IF HasKey(md, K_video_width)
  THEN AppendPart(parts, WidthByHeight(md, PySubscript(md, K_video_height)), <<>>)
  ELSE parts

FpsPart(md, parts) ==
  IF parts.ok /\ HasKey(md, K_video_fps)
  THEN AppendPart(parts, PyFormat2f(Item(md, K_video_fps)), FPS_SUFFIX)
  ELSE parts

DurationPart(md, parts) ==
  IF parts.ok /\ HasKey(md, K_video_duration)
  THEN AppendPart(parts, PyFormat2f(Item(md, K_video_duration)), <<"s">>)
  ELSE parts

InfoParts(md) == DurationPart(md, FpsPart(md, WidthHeightPart(md, Ok(<<>>))))

FileInfo(parts) == IF Len(parts) > 0 THEN Join(parts) ELSE PNG_IMAGE

\* result['file_info'] = ..., unless composing the parts raised
StoreFileInfo(st, parts) ==
  IF parts.ok THEN Out([st EXCEPT !.result.file_info = JStr(FileInfo(parts.v))])
  ELSE Fail(parts.exc, st)

\* "Store full metadata" and "Create file info", after the loop
Assemble(md, st) ==
  StoreFileInfo([st EXCEPT !.result.metadata_json = JStr(JsonDumps(md, 0))], InfoParts(md))

\* "except Exception as e": every exception the body raises is an Exception
ExceptHandlerValueErrorOnly(e) == e = "ValueError"

ExceptHandler(e) ==
  e \in {"ValueError", "TypeError", "AttributeError", "KeyError", "IndexError"}

\* the loop over items[i..]
RECURSIVE ScanNodes(_, _, _)
ScanNodes(st, items, i) ==
  IF i > Len(items) THEN Out(st)
  ELSE Then(NodeStep(st, items[i].v), LAMBDA s : ScanNodes(s, items, i + 1))

\* what the function hands back: the dict it returns, or the exception
\* that leaves it
Returned(res) == [raised |-> "", result |-> res]
Leaves(e, res) == [raised |-> e, result |-> res]

\* the end of the try block, o being the outcome of its body
TryEnd(o) ==
  IF o.ok \/ ExceptHandler(o.exc) THEN Returned(o.st.result)
  ELSE Leaves(o.exc, o.st.result)

\* the try block from the print on, items being prompt_data.items()
ScanAndAssemble(md, st, items) ==
  IF items.ok
  THEN TryEnd(Then(ScanNodes(st, items.v, 1), LAMBDA s : Assemble(md, s)))
  ELSE TryEnd(Fail(items.exc, st))

ParseGraph(md, prompt_data) ==
  IF ~Truthy(prompt_data) THEN Returned(ReturnNoGraph(md, DefaultResult))
  ELSE ScanAndAssemble(md, ScanState(DefaultResult, FALSE, FALSE), GraphItems(prompt_data))

\* parse_comfyui_metadata(metadata) as a whole
Parse(md) == ParseGraph(md, PromptData(md))

(***************************************************************************)
(* String literals and str methods of the loaders and of extract.          *)
(***************************************************************************)
K_format == <<"f", "o", "r", "m", "a", "t">>
K_tags == <<"t", "a", "g", "s">>
K_streams == <<"s", "t", "r", "e", "a", "m", "s">>
K_codec_type == <<"c", "o", "d", "e", "c", "_", "t", "y", "p", "e">>
K_width == <<"w", "i", "d", "t", "h">>
K_height == <<"h", "e", "i", "g", "h", "t">>
K_r_frame_rate == <<"r", "_", "f", "r", "a", "m", "e", "_", "r", "a", "t", "e">>
K_duration == <<"d", "u", "r", "a", "t", "i", "o", "n">>
VIDEO == <<"v", "i", "d", "e", "o">>
DEFAULT_RATE == <<"0", "/", "1">>
EXT_png == <<".", "p", "n", "g">>
EXT_jpg == <<".", "j", "p", "g">>
EXT_jpeg == <<".", "j", "p", "e", "g">>
EXT_mp4 == <<".", "m", "p", "4">>
EXT_avi == <<".", "a", "v", "i">>
EXT_mov == <<".", "m", "o", "v">>
EXT_mkv == <<".", "m", "k", "v">>
EXT_webm == <<".", "w", "e", "b", "m">>
F_Comment == <<"C", "o", "m", "m", "e", "n", "t">>
F_Description == <<"D", "e", "s", "c", "r", "i", "p", "t", "i", "o", "n">>
F_Workflow == <<"W", "o", "r", "k", "f", "l", "o", "w">>
F_Prompt == <<"P", "r", "o", "m", "p", "t">>
UpperLetters == <<"A", "B", "C", "D", "E", "F", "G", "H", "I", "J", "K", "L", "M", "N", "O", "P", "Q", "R", "S", "T", "U", "V", "W", "X", "Y", "Z">>
LowerLetters == <<"a", "b", "c", "d", "e", "f", "g", "h", "i", "j", "k", "l", "m", "n", "o", "p", "q", "r", "s", "t", "u", "v", "w", "x", "y", "z">>

ImageExts == {EXT_png, EXT_jpg, EXT_jpeg}
VideoExts == {EXT_mp4, EXT_avi, EXT_mov, EXT_mkv, EXT_webm}

LowerChar(c) ==
  IF \E i \in 1..26 : UpperLetters[i] = c
  THEN LowerLetters[CHOOSE i \in 1..26 : UpperLetters[i] = c]
  ELSE c

\* s.lower()
Lower(cs) == [i \in 1..Len(cs) |-> LowerChar(cs[i])]

\* s.endswith(suffix)
EndsWith(cs, suffix) ==
  Len(cs) >= Len(suffix) /\ SubSeq(cs, Len(cs) - Len(suffix) + 1, Len(cs)) = suffix

\* the position of the last c in cs, 0 when there is none
LastPos(cs, c) ==
  IF \E i \in 1..Len(cs) : cs[i] = c
  THEN CHOOSE i \in 1..Len(cs) : cs[i] = c /\ \A j \in (i + 1)..Len(cs) : cs[j] # c
  ELSE 0

\* os.path.splitext(path)[1]: from the last dot of the base name, unless
\* only dots precede it there
SplitextAt(path, sep, dot) ==
  IF dot > sep /\ \E j \in (sep + 1)..(dot - 1) : path[j] # "."
  THEN SubSeq(path, dot, Len(path))
  ELSE <<>>

Splitext1(path) == SplitextAt(path, LastPos(path, "/"), LastPos(path, "."))

\* s.split(sep) for a one-character sep
RECURSIVE Split(_, _)

SplitAt(cs, sep, i) ==
  <<SubSeq(cs, 1, i - 1)>> \o Split(SubSeq(cs, i + 1, Len(cs)), sep)

Split(cs, sep) ==
  IF \E i \in 1..Len(cs) : cs[i] = sep
  THEN SplitAt(cs, sep, CHOOSE i \in 1..Len(cs) : cs[i] = sep /\ \A j \in 1..(i - 1) : cs[j] # sep)
  ELSE <<cs>>

(***************************************************************************)
(* extract_video_metadata                                                  *)
(***************************************************************************)
metadata_fields ==
  <<K_comment, F_Comment, K_description, F_Description,
    K_workflow, F_Workflow, K_prompt, F_Prompt>>

\* json.loads(tags[field]) in its try block: the decoded tag, else the tag
Decode(raw) ==
  IF raw.t = "str" /\ JsonLoads(raw.s).ok THEN JsonLoads(raw.s).v ELSE raw

RECURSIVE ReadTags(_, _, _)

\* metadata[field.lower()] = ..., then the next field
StoreTag(tags, i, md, raw) ==
  IF raw.ok THEN ReadTags(tags, i + 1, SetItem(md, Lower(metadata_fields[i]), Decode(raw.v)))
  ELSE raw

TagFrom(tags, i, md, present) ==
  IF ~present.ok THEN present
  ELSE IF present.v THEN StoreTag(tags, i, md, PySubscript(tags, metadata_fields[i]))
  ELSE ReadTags(tags, i + 1, md)

\* the loop over metadata_fields from position i: a tag that decodes as
\* JSON is stored decoded, any other tag as it is, under the lowered name
ReadTags(tags, i, md) ==
  IF i > Len(metadata_fields) THEN Ok(md)
  ELSE TagFrom(tags, i, md, PyContains(tags, metadata_fields[i]))

\* fps_num / fps_den, a float, in hundredths (the rates of the model's
\* inputs divide evenly)
TrueDiv(a, b) == (100 * a) \div b

\* fps_num / fps_den if fps_den else 0; a failure of int() gives 0
FpsOf(fps_num, fps_den) ==
  IF fps_num.ok /\ fps_den.ok
  THEN (IF fps_den.v # 0 THEN JFloat(TrueDiv(fps_num.v, fps_den.v)) ELSE JInt(0))
  ELSE JInt(0)

\* the two parts of the split; another number of parts fails the unpacking
FpsOfParts(parts) ==
  IF Len(parts) = 2 THEN FpsOf(StrToInt(parts[1]), StrToInt(parts[2])) ELSE JInt(0)

\* video_fps from r_frame_rate: any failure of the split, of the unpacking
\* or of int() gives 0
VideoFps(fps_str) ==
  IF fps_str.t = "str" THEN FpsOfParts(Split(fps_str.s, "/")) ELSE JInt(0)

\* the test that selects the stream whose properties are read
IsAnyStream(codec_type) == TRUE

IsVideoStream(codec_type) == codec_type = JStr(VIDEO)

\* metadata['video_duration'] = float(stream.get('duration', 0))
StoreDuration(md, d) == IF d.ok THEN Ok(SetItem(md, K_video_duration, JFloat(d.v))) ELSE d

\* the four video_* fields of a video stream
StreamProperties(stream, md) ==
  StoreDuration(
    SetItem(SetItem(SetItem(md, K_video_width, DictGet(stream, K_width, JInt(0))),
                    K_video_height, DictGet(stream, K_height, JInt(0))),
            K_video_fps, VideoFps(DictGet(stream, K_r_frame_rate, JStr(DEFAULT_RATE)))),
    PyFloat(DictGet(stream, K_duration, JInt(0))))

RECURSIVE ReadStreams(_, _, _)

StreamFrom(streams, i, md, codec_type) ==
  IF ~codec_type.ok THEN codec_type
  ELSE IF IsVideoStream(codec_type.v) THEN StreamProperties(streams[i], md)
  ELSE ReadStreams(streams, i + 1, md)

\* "Get video properties": the first video stream sets the four video_*
\* fields; float() of its duration may raise
ReadStreams(streams, i, md) ==
  IF i > Len(streams) THEN Ok(md)
  ELSE StreamFrom(streams, i, md, PyGet(streams[i], K_codec_type, JNull))

\* iterating video_info.get('streams', []): a list gives its items, a str
\* its characters, a dict its keys, anything else a TypeError
PyIter(x) ==
  CASE x.t = "list" -> Ok(x.items)
    [] x.t = "str" -> Ok([i \in 1..Len(x.s) |-> JStr(<<x.s[i]>>)])
    [] x.t = "dict" -> Ok([i \in 1..Len(x.kv) |-> JStr(x.kv[i].k)])
    [] OTHER -> Raise("TypeError")

IterOf(x) == IF x.ok THEN PyIter(x.v) ELSE x

\* "return metadata if metadata else None"
RecordOrNone(md) == IF Truthy(md) THEN md ELSE JNull

\* the end of the try block: an exception gives None
VideoTryEnd(md) == IF md.ok THEN RecordOrNone(md.v) ELSE JNull

StreamsRead(items, tagged) ==
  IF items.ok THEN ReadStreams(items.v, 1, tagged.v) ELSE items

TagsRead(video_info, tagged) ==
  IF tagged.ok
  THEN StreamsRead(IterOf(PyGet(video_info, K_streams, JList(<<>>))), tagged)
  ELSE tagged

\* list(tags.keys()) of the print, then the loop over metadata_fields
TagsOfFormat(tags) ==
  IF ~tags.ok THEN tags
  ELSE IF IsDict(tags.v) THEN ReadTags(tags.v, 1, JDict(<<>>))
  ELSE Raise("AttributeError")

FormatTags(format) == IF format.ok THEN PyGet(format.v, K_tags, JDict(<<>>)) ELSE format

\* the function from "video_info = json.loads(result.stdout)" on
FromVideoInfo(video_info) ==
  IF video_info.ok
  THEN VideoTryEnd(TagsRead(video_info.v,
                     TagsOfFormat(FormatTags(PyGet(video_info.v, K_format, JDict(<<>>))))))
  ELSE JNull

\* extract_video_metadata(file_path): probe is what running ffprobe on the
\* file gives, [outcome, stdout]; only a run that ends with return code 0
\* has its output read
ExtractVideoMetadata(probe) ==
  IF probe.outcome # "ok" THEN JNull ELSE FromVideoInfo(JsonLoads(probe.stdout))

(***************************************************************************)
(* extract_png_metadata                                                    *)
(***************************************************************************)
\* metadata[key] = json.loads(img.info[key]); a chunk that does not decode
\* is dropped
StoreChunk(md, key, parsed) == IF parsed.ok THEN SetItem(md, key, parsed.v) ELSE md

ChunkLoads(chunk) == IF chunk.t = "str" THEN JsonLoads(chunk.s) ELSE Raise("TypeError")

ReadChunk(info, key, md) ==
  IF HasKey(info, key) THEN StoreChunk(md, key, ChunkLoads(Item(info, key))) ELSE md

\* extract_png_metadata(file_path): image is what Image.open gives,
\* [opens, info]
ExtractPngMetadata(image) ==
  IF ~image.opens THEN JNull
  ELSE RecordOrNone(ReadChunk(image.info, K_prompt,
                      ReadChunk(image.info, K_workflow, JDict(<<>>))))

(***************************************************************************)
(* find_video_file_in_workflow and extract                                 *)
(***************************************************************************)
IsVideoName(name) == \E e \in VideoExts : EndsWith(Lower(name), e)

\* the most recently modified video file of the listing of input_dir and
\* output_dir, the first listed among equally recent ones; None when the
\* directories hold no video file
MostRecent(listing, vids) ==
  IF vids = {} THEN JNull
  ELSE JStr(listing[CHOOSE i \in vids :
              \A j \in vids : \/ listing[j].mtime < listing[i].mtime
                              \/ (listing[j].mtime = listing[i].mtime /\ i <= j)].path)

FindVideoFile(listing) ==
  MostRecent(listing, {i \in 1..Len(listing) : IsVideoName(listing[i].path)})

INPUT_DIR == <<"i", "n", "/">>

\* actual_path of extract: None is JNull
ActualPath(c) ==
  IF Len(c.file_path) > 0 /\ c.path_exists THEN JStr(c.file_path)
  ELSE IF Len(c.filename) > 0 THEN JStr(INPUT_DIR \o c.filename)
  ELSE IF c.video THEN FindVideoFile(c.listing)
  ELSE JNull

\* os.path.exists(actual_path)
Exists(c, path) ==
  \/ (path = c.file_path /\ c.path_exists)
  \/ (path = INPUT_DIR \o c.filename /\ c.named_exists)
  \/ \E i \in 1..Len(c.listing) : c.listing[i].path = path

\* the fixed results of extract
Fixed(file_info) ==
  <<JStr(<<>>), JStr(<<>>), JInt(0), JInt(0), JFloat(0), JStr(<<>>), JStr(<<>>),
    JStr(EMPTY_JSON), JStr(file_info)>>

\* the tuple extract builds from the result dict
ResultTuple(r) ==
  <<r.positive_prompt, r.negative_prompt, r.seed, r.steps, r.cfg, r.sampler,
    r.scheduler, r.metadata_json, r.file_info>>

(***************************************************************************)
(* The inputs of the model: workflow nodes, graphs and RawRecords.         *)
(***************************************************************************)
MaxTags == 1

Chars(n) == IntChars(n)
Node(class_type, inputs) == JDict(<<KV(K_class_type, JStr(class_type)), KV(K_inputs, inputs)>>)
Input(key, val) == JDict(<<KV(key, val)>>)

TEXT_A == <<"a", " ", "c", "a", "t">>
TEXT_B == <<"b", "l", "u", "r">>
TEXT_C == <<"c">>
EULER == <<"e", "u", "l", "e", "r">>
LCM == <<"l", "c", "m">>
NOT_A_NUMBER == <<"n", "a", "n", "a">>
VAEDecode == <<"V", "A", "E", "D", "e", "c", "o", "d", "e">>

TextA == Node(CLIPTextEncode, Input(K_text, JStr(TEXT_A)))
TextB == Node(CLIPTextEncodeSDXL, Input(K_text, JStr(TEXT_B)))
TextC == Node(CLIPTextEncodeFlux, Input(K_text, JStr(TEXT_C)))
TextEmpty == Node(CLIPTextEncode, Input(K_text, JStr(<<>>)))
TextBadInputs == Node(CLIPTextEncode, JList(<<JStr(<<"4">>), JInt(0)>>))
Noise42 == Node(RandomNoise, Input(K_noise_seed, JInt(42)))
Noise7 == Node(RandomNoise, Input(K_noise_seed, JInt(7)))
NoiseList == Node(RandomNoise, Input(K_noise_seed, JList(<<JInt(7), JInt(0)>>)))
NoiseString == Node(RandomNoise, Input(K_noise_seed, JStr(NOT_A_NUMBER)))
SamplerEuler == Node(KSamplerSelect, Input(K_sampler_name, JStr(EULER)))
SamplerLcm == Node(KSamplerSelect, Input(K_sampler_name, JStr(LCM)))
SamplerEmpty == Node(KSamplerSelect, Input(K_sampler_name, JStr(<<>>)))
Steps20 == Node(BasicScheduler, Input(K_steps, JInt(20)))
StepsString == Node(LTXVScheduler, Input(K_steps, JStr(NOT_A_NUMBER)))
Cfg75 == Node(CFGGuider, Input(K_cfg, JFloat(750)))
CfgList == Node(DualCFGGuider, Input(K_cfg, JList(<<JStr(<<"9">>), JInt(1)>>)))
UnknownNode == Node(VAEDecode, JStr(TEXT_C))
UnknownWithInputs ==
  Node(VAEDecode, JDict(<<KV(K_text, JStr(TEXT_C)), KV(K_noise_seed, JInt(9)),
                          KV(K_sampler_name, JStr(LCM)), KV(K_steps, JInt(9)),
                          KV(K_cfg, JFloat(900))>>))
NoClassType == JDict(<<KV(K_inputs, Input(K_text, JStr(TEXT_C)))>>)
NotANode == JStr(TEXT_C)

NodePool ==
  {TextA, TextB, TextC, TextEmpty, TextBadInputs, Noise42, Noise7, NoiseList,
   NoiseString, SamplerEuler, SamplerLcm, SamplerEmpty, Steps20, StepsString,
   Cfg75, CfgList, UnknownNode, NoClassType, NotANode}

UnknownNodes == {UnknownNode, UnknownWithInputs}

\* the graph of the nodes ns, with the node ids "1", "2", ...
GraphOf(ns) == JDict([i \in 1..Len(ns) |-> KV(Chars(i), ns[i])])

\* the nodes of the longest graphs
CorePool ==
  {TextA, TextB, TextC, TextEmpty, Noise42, Noise7, NoiseList, SamplerEuler,
   SamplerEmpty, StepsString, Cfg75, UnknownNode}

\* the node sequences of the graphs: up to MaxNodes nodes of CorePool, and
\* up to MaxNodes - 1 nodes of NodePool
NodeSeqs ==
  UNION {[1..n -> CorePool] : n \in 0..MaxNodes}
    \cup UNION {[1..n -> NodePool] : n \in 0..(MaxNodes - 1)}

\* records that hold a graph under 'prompt' and nothing else
GraphRecords == {JDict(<<KV(K_prompt, GraphOf(ns))>>) : ns \in NodeSeqs}

\* what the fields of the other records are drawn from; <<>> is "no entry"
PromptChoices ==
  {<<>>} \cup
  {<<KV(K_prompt, v)>> :
     v \in {JDict(<<>>), GraphOf(<<TextA>>), GraphOf(<<Noise7, NoiseList, Cfg75>>),
            JStr(TEXT_A), JStr(<<>>), JList(<<JInt(1)>>), JInt(5), JNull}}
CommentChoices ==
  {<<>>, <<KV(K_comment, JStr(TEXT_A))>>, <<KV(K_comment, GraphOf(<<Noise42, TextB>>))>>}
WorkflowChoices == {<<>>, <<KV(K_workflow, JDict(<<KV(Chars(1), JInt(1))>>))>>}
VideoChoices ==
  {<<>>,
   <<KV(K_video_width, JInt(1920)), KV(K_video_height, JInt(1080)),
     KV(K_video_fps, JFloat(2400)), KV(K_video_duration, JFloat(550))>>,
   <<KV(K_video_width, JInt(640)), KV(K_video_height, JInt(480)),
     KV(K_video_fps, JInt(0)), KV(K_video_duration, JFloat(0))>>,
   <<KV(K_video_width, JInt(1920))>>,
   <<KV(K_video_fps, JFloat(2997))>>,
   <<KV(K_video_fps, JStr(<<"2", "4">>))>>,
   <<KV(K_video_duration, JFloat(5))>>}

MixedRecords ==
  {JDict(w \o c \o p \o v) :
     w \in WorkflowChoices, c \in CommentChoices, p \in PromptChoices, v \in VideoChoices}

RawRecords == GraphRecords \cup MixedRecords

(***************************************************************************)
(* parse_comfyui_metadata, step by step.                                   *)
(***************************************************************************)
NoCall == JNull
Items == GraphItems(PromptData(metadata)).v
Locals == ScanState(result, positive_found, negative_found)

Init ==
  /\ metadata \in RawRecords
  /\ pc = "start"
  /\ idx = 0
  /\ result = DefaultResult
  /\ positive_found = FALSE
  /\ negative_found = FALSE
  /\ exc = ""
  /\ call = NoCall
  /\ ret = <<>>

\* "if not prompt_data": store the record and return
ReturnDefaults ==
  /\ pc = "start"
  /\ ~Truthy(PromptData(metadata))
  /\ result' = ReturnNoGraph(metadata, result)
  /\ pc' = "done"
  /\ UNCHANGED <<metadata, idx, positive_found, negative_found, exc, call, ret>>

\* the scan starts on the items of the graph
StartScan ==
  /\ pc = "start"
  /\ Truthy(PromptData(metadata))
  /\ GraphItems(PromptData(metadata)).ok
  /\ idx' = 1
  /\ pc' = "scan"
  /\ UNCHANGED <<metadata, result, positive_found, negative_found, exc, call, ret>>

\* len(prompt_data) or prompt_data.items() raises
StartScanRaises ==
  /\ pc = "start"
  /\ Truthy(PromptData(metadata))
  /\ ~GraphItems(PromptData(metadata)).ok
  /\ exc' = GraphItems(PromptData(metadata)).exc
  /\ pc' = "except"
  /\ UNCHANGED <<metadata, idx, result, positive_found, negative_found, call, ret>>

\* the locals after a piece of the scan
Leave(o) ==
  /\ result' = o.st.result
  /\ positive_found' = o.st.positive_found
  /\ negative_found' = o.st.negative_found

Completes(o) == o.ok /\ Leave(o)
RaisesOut(o) == ~o.ok /\ Leave(o) /\ exc' = o.exc

\* one iteration of the loop that completes
ScanNode ==
  /\ pc = "scan"
  /\ idx <= Len(Items)
  /\ Completes(NodeStep(Locals, Items[idx].v))
  /\ idx' = idx + 1
  /\ UNCHANGED <<metadata, pc, exc, call, ret>>

\* one iteration of the loop that raises
ScanNodeRaises ==
  /\ pc = "scan"
  /\ idx <= Len(Items)
  /\ RaisesOut(NodeStep(Locals, Items[idx].v))
  /\ pc' = "except"
  /\ UNCHANGED <<metadata, idx, call, ret>>

\* after the loop: metadata_json and file_info, then the return
AssembleResult ==
  /\ pc = "scan"
  /\ idx > Len(Items)
  /\ Completes(Assemble(metadata, Locals))
  /\ pc' = "done"
  /\ UNCHANGED <<metadata, idx, exc, call, ret>>

\* after the loop: metadata_json is stored, composing file_info raises
AssembleRaises ==
  /\ pc = "scan"
  /\ idx > Len(Items)
  /\ RaisesOut(Assemble(metadata, Locals))
  /\ pc' = "except"
  /\ UNCHANGED <<metadata, idx, call, ret>>

\* the except clause, then "return result"; an exception it does not catch
\* leaves the function
Except ==
  /\ pc = "except"
  /\ pc' = IF ExceptHandler(exc) THEN "done" ELSE "raised"
  /\ UNCHANGED <<metadata, idx, result, positive_found, negative_found, exc, call, ret>>

Next ==
  \/ ReturnDefaults
  \/ StartScan
  \/ StartScanRaises
  \/ ScanNode
  \/ ScanNodeRaises
  \/ AssembleResult
  \/ AssembleRaises
  \/ Except

Spec == Init /\ [][Next]_vars

(***************************************************************************)
(* The inputs of extract: its arguments, what the file system holds and    *)
(* what ffprobe and Image.open give for the file.                          *)
(***************************************************************************)
A_MP4 == <<"a", ".", "m", "p", "4">>
A_MKV == <<"c", "l", "i", "p", ".", "M", "K", "V">>
B_PNG == <<"b", ".", "p", "n", "g">>
C_TXT == <<"c", ".", "t", "x", "t">>
NO_EXT == <<"o", "u", "t", ".", "d", "/", "r", "a", "w">>
D_WEBM == <<"d", ".", "w", "e", "b", "m">>
X_MP4 == <<"i", "n", "/", "x", ".", "m", "p", "4">>
Y_MOV == <<"o", "u", "t", "/", "y", ".", "m", "o", "v">>
Z_JPG == <<"i", "n", "/", "z", ".", "j", "p", "g">>
ENCODER == <<"e", "n", "c", "o", "d", "e", "r">>
AUDIO == <<"a", "u", "d", "i", "o">>

\* the texts of tags and chunks: a workflow graph as JSON, and plain text
GRAPH_TEXT ==
  <<"{", "\"", "1", "\"", ":", "{", "\"", "c", "l", "a", "s", "s", "_", "t", "y", "p", "e", "\"", ":", "\"",
    "R", "a", "n", "d", "o", "m", "N", "o", "i", "s", "e", "\"", ",", "\"",
    "i", "n", "p", "u", "t", "s", "\"", ":", "{", "\"",
    "n", "o", "i", "s", "e", "_", "s", "e", "e", "d", "\"", ":", "4", "2", "}", "}", "}">>
PLAIN_TEXT == <<"h", "i", " ", "1">>
TagTexts == {GRAPH_TEXT, PLAIN_TEXT}
TagNames ==
  {K_comment, F_Comment, K_description, F_Description, K_workflow, F_Workflow,
   K_prompt, F_Prompt, ENCODER}

\* the tags of a container: at most MaxTags of them, with distinct names
TagSeqs ==
  UNION {{s \in [1..n -> TagNames \X TagTexts] :
            \A i, j \in 1..n : i # j => s[i][1] # s[j][1]} : n \in 0..MaxTags}
TagsOf(s) == JDict([i \in 1..Len(s) |-> KV(s[i][1], JStr(s[i][2]))])

AudioStream == JDict(<<KV(K_codec_type, JStr(AUDIO))>>)
VideoStream(w, h, rate, duration) ==
  JDict(<<KV(K_codec_type, JStr(VIDEO)), KV(K_width, JInt(w)), KV(K_height, JInt(h)),
          KV(K_r_frame_rate, JStr(rate)), KV(K_duration, JStr(duration))>>)
StreamLists ==
  {<<>>,
   <<AudioStream>>,
   <<VideoStream(1920, 1080, <<"2", "4", "/", "1">>, <<"5", ".", "5", "0", "0">>)>>,
   <<AudioStream, VideoStream(640, 480, <<"2", "5", "/", "2">>, <<"1", "0">>)>>,
   <<JDict(<<KV(K_codec_type, JStr(VIDEO)), KV(K_r_frame_rate, JStr(NOT_A_NUMBER))>>)>>,
   <<VideoStream(640, 480, <<"3", "0", "/", "0">>, <<"N", "/", "A">>)>>}

\* what ffprobe prints
VideoInfos ==
  {JDict(<<KV(K_format, JDict(<<KV(K_tags, TagsOf(s))>>)), KV(K_streams, JList(ss))>>) :
     s \in TagSeqs, ss \in StreamLists}
    \cup {JDict(<<KV(K_format, JDict(<<>>))>>),
          JDict(<<KV(K_streams, JList(<<VideoStream(640, 480, <<"2", "4", "/", "1">>, <<"1", "0">>)>>))>>),
          JList(<<>>)}

Probes ==
  {[outcome |-> o, stdout |-> <<>>] : o \in {"missing", "timeout", "nonzero", "ok"}}
    \cup {[outcome |-> "ok", stdout |-> JsonDumps(info, 0)] : info \in VideoInfos}

ChunkChoices(key) == {<<>>} \cup {<<KV(key, JStr(txt))>> : txt \in TagTexts}
Images ==
  {[opens |-> FALSE, info |-> JDict(<<>>)]}
    \cup {[opens |-> TRUE, info |-> JDict(w \o p)] :
            w \in ChunkChoices(K_workflow), p \in ChunkChoices(K_prompt)}

Listings ==
  {<<>>,
   <<[path |-> Z_JPG, mtime |-> 3]>>,
   <<[path |-> X_MP4, mtime |-> 2], [path |-> Z_JPG, mtime |-> 3], [path |-> Y_MOV, mtime |-> 2]>>,
   <<[path |-> X_MP4, mtime |-> 1], [path |-> Y_MOV, mtime |-> 2]>>}

OneProbe ==
  [outcome |-> "ok",
   stdout |-> JsonDumps(JDict(<<KV(K_format, JDict(<<KV(K_tags, TagsOf(<<<<F_Prompt, GRAPH_TEXT>>>>))>>)),
                                KV(K_streams, JList(<<AudioStream>>))>>), 0)]
OneImage == [opens |-> TRUE, info |-> JDict(<<KV(K_prompt, JStr(GRAPH_TEXT))>>)]

\* calls on a video file, whatever it holds
VideoCalls ==
  {[file_path |-> A_MP4, path_exists |-> TRUE, filename |-> <<>>, named_exists |-> FALSE,
    video |-> FALSE, listing |-> <<>>, probe |-> p, image |-> OneImage] : p \in Probes}

\* calls on an image file, whatever it holds
ImageCalls ==
  {[file_path |-> B_PNG, path_exists |-> TRUE, filename |-> <<>>, named_exists |-> FALSE,
    video |-> FALSE, listing |-> <<>>, probe |-> OneProbe, image |-> i] : i \in Images}

\* calls with any arguments, on files that hold a workflow
PathCalls ==
  {[file_path |-> fp, path_exists |-> pe, filename |-> fn, named_exists |-> ne,
    video |-> v, listing |-> l, probe |-> OneProbe, image |-> OneImage] :
     fp \in {<<>>, A_MP4, A_MKV, B_PNG, C_TXT, NO_EXT}, pe \in BOOLEAN,
     fn \in {<<>>, D_WEBM}, ne \in BOOLEAN, v \in BOOLEAN, l \in Listings}

Calls == VideoCalls \cup ImageCalls \cup PathCalls

(***************************************************************************)
(* extract                                                                 *)
(***************************************************************************)
Ext == Lower(Splitext1(ActualPath(call).s))
Found == ActualPath(call) # JNull /\ Len(ActualPath(call).s) > 0
           /\ Exists(call, ActualPath(call).s)

InitExtract ==
  /\ call \in Calls
  /\ pc = "extract"
  /\ metadata = JNull
  /\ idx = 0
  /\ result = DefaultResult
  /\ positive_found = FALSE
  /\ negative_found = FALSE
  /\ exc = ""
  /\ ret = <<>>

\* no path, or no file at the path
FileNotFound ==
  /\ pc = "extract"
  /\ ~Found
  /\ ret' = Fixed(FILE_NOT_FOUND)
  /\ pc' = "returned"
  /\ UNCHANGED <<metadata, idx, result, positive_found, negative_found, exc, call>>

\* an extension of neither list
Unsupported ==
  /\ pc = "extract"
  /\ Found
  /\ Ext \notin ImageExts \cup VideoExts
  /\ ret' = Fixed(UNSUPPORTED \o Ext)
  /\ pc' = "returned"
  /\ UNCHANGED <<metadata, idx, result, positive_found, negative_found, exc, call>>

\* metadata = self.extract_png_metadata(actual_path)
LoadPng ==
  /\ pc = "extract"
  /\ Found
  /\ Ext \in ImageExts
  /\ metadata' = ExtractPngMetadata(call.image)
  /\ pc' = "loaded"
  /\ UNCHANGED <<idx, result, positive_found, negative_found, exc, call, ret>>

\* metadata = self.extract_video_metadata(actual_path)
LoadVideo ==
  /\ pc = "extract"
  /\ Found
  /\ Ext \in VideoExts
  /\ metadata' = ExtractVideoMetadata(call.probe)
  /\ pc' = "loaded"
  /\ UNCHANGED <<idx, result, positive_found, negative_found, exc, call, ret>>

\* "if not metadata"
NoMetadata ==
  /\ pc = "loaded"
  /\ ~Truthy(metadata)
  /\ ret' = Fixed(NO_METADATA_FOUND)
  /\ pc' = "returned"
  /\ UNCHANGED <<metadata, idx, result, positive_found, negative_found, exc, call>>

\* the return of extract with the result p of parse_comfyui_metadata
ReturnParsed(p) ==
  /\ result' = p.result
  /\ exc' = p.raised
  /\ pc' = IF p.raised = "" THEN "returned" ELSE "raised"
  /\ ret' = IF p.raised = "" THEN ResultTuple(p.result) ELSE ret

\* result = self.parse_comfyui_metadata(metadata), and the tuple of it
ParseAndReturn ==
  /\ pc = "loaded"
  /\ Truthy(metadata)
  /\ ReturnParsed(Parse(metadata))
  /\ UNCHANGED <<metadata, idx, positive_found, negative_found, call>>

NextExtract ==
  \/ FileNotFound
  \/ Unsupported
  \/ LoadPng
  \/ LoadVideo
  \/ NoMetadata
  \/ ParseAndReturn

SpecExtract == InitExtract /\ [][NextExtract]_vars

(***************************************************************************)
(* The properties.  Those about parse_comfyui_metadata are stated of Spec, *)
(* at pc = "done", where result is the dict the function returns; those    *)
(* about extract are stated of SpecExtract, at pc = "returned", where ret  *)
(* is the tuple it returns.                                                *)
(***************************************************************************)
\* the record holds a graph: prompt_data is a dict
HoldsGraph == IsDict(PromptData(metadata))

\* the record has no 'prompt' field and no dict-valued 'comment' field
NoGraphField ==
  /\ ~HasKey(metadata, K_prompt)
  /\ ~(HasKey(metadata, K_comment) /\ IsDict(Item(metadata, K_comment)))

\* the class_type and the inputs of a node that is a dict
ClassTypeOf(node) == DictGet(node, K_class_type, JStr(<<>>))
InputsOf(node) == DictGet(node, K_inputs, JDict(<<>>))

\* the fields of the result other than metadata_json
ExtractedFields == ResultFields \ {"metadata_json"}

\* C1: parse_comfyui_metadata is total: whatever the record holds, no
\* exception leaves the function, and the dict it returns has all nine
\* fields.
C1_Total ==
  /\ pc # "raised"
  /\ pc = "done" => DOMAIN result = ResultFields

\* the function has returned after an exception in the body of its try
C1_ReturnedAfterException ==
  /\ pc = "done"
  /\ exc \in {"TypeError", "AttributeError"}
  /\ DOMAIN result = ResultFields

\* C2: for every record, whatever its graph holds, the metadata_json that is
\* returned deserializes to a record equal to the record passed in.
C2_RoundTrip ==
  pc = "done" => JsonLoads(result.metadata_json.s) = Ok(metadata)

\* the records whose graph is one RandomNoise node
SingleNoiseRecords ==
  {JDict(<<KV(K_prompt, GraphOf(<<n>>))>>) : n \in {Noise42, Noise7, NoiseList, NoiseString}}

\* the seed that the rule for RandomNoise is to give for noise_seed v, the
\* seed being 0 before the node
SeedFor(v) ==
  CASE v.t = "int" -> JInt(v.n)
    [] v.t = "list" /\ Len(v.items) > 0 /\ v.items[1].t = "int" -> JInt(v.items[1].n)
    [] OTHER -> JInt(0)

\* C3: for a RandomNoise node, an integer noise_seed n gives the seed n, a
\* sequence whose first element is k gives the seed k, and a string that is
\* no number leaves the seed as it was, 0 when no earlier node set it.
C3_SeedExtraction ==
  pc = "done" /\ metadata \in SingleNoiseRecords
    => result.seed = SeedFor(Item(InputsOf(Items[1].v), K_noise_seed))

\* C4: for every record with no 'prompt' field and no dict-valued 'comment'
\* field, the function returns every field at its default and metadata_json
\* equal to the serialization of the record with indent 2.
C4_NoGraphDefaults ==
  pc = "done" /\ NoGraphField
    => /\ \A f \in ExtractedFields : result[f] = DefaultResult[f]
       /\ result.metadata_json = JStr(JsonDumps(metadata, 0))

\* the function has returned for a record that has fields, none of them a
\* graph
C4_ReturnedWithoutGraph ==
  /\ pc = "done"
  /\ NoGraphField
  /\ HasKey(metadata, K_comment)
  /\ HasKey(metadata, K_video_width)
  /\ result.metadata_json = JStr(JsonDumps(metadata, 0))

\* the record of the scenario: the four video fields and no graph
VideoOnlyRecord ==
  JDict(<<KV(K_video_width, JInt(1920)), KV(K_video_height, JInt(1080)),
          KV(K_video_fps, JFloat(2400)), KV(K_video_duration, JFloat(550))>>)

\* "1920x1080 | 24.00 FPS | 5.50s"
EXPECTED_INFO ==
  <<"1", "9", "2", "0", "x", "1", "0", "8", "0", " ", "|", " ",
    "2", "4", ".", "0", "0", " ", "F", "P", "S", " ", "|", " ",
    "5", ".", "5", "0", "s">>

\* C5: file_info is composed of the video fields the record carries, also
\* when the record has no graph: the record with width 1920, height 1080,
\* fps 24.0, duration 5.5 and no graph gives "1920x1080 | 24.00 FPS | 5.50s",
\* and a record with none of the fields gives "PNG Image".
C5_FileInfoComposed ==
  pc = "done" /\ NoGraphField
    => /\ metadata = VideoOnlyRecord => result.file_info = JStr(EXPECTED_INFO)
       /\ (\A k \in {K_video_width, K_video_fps, K_video_duration} : ~HasKey(metadata, k))
            => result.file_info = JStr(PNG_IMAGE)

\* a text-encoding node with a non-empty text
IsTextNode(node) ==
  /\ IsDict(node)
  /\ ClassTypeOf(node) \in TextEncodeTypes
  /\ IsDict(InputsOf(node))
  /\ Truthy(DictGet(InputsOf(node), K_text, JStr(<<>>)))

\* the texts of those nodes, in iteration order
TextsOf(items) ==
  [i \in 1..Len(SelectSeq(items, LAMBDA e : IsTextNode(e.v))) |->
     Item(InputsOf(SelectSeq(items, LAMBDA e : IsTextNode(e.v))[i].v), K_text)]

NthText(texts, n) == IF Len(texts) >= n THEN texts[n] ELSE JStr(<<>>)

\* C6: positive_prompt is the text of the first text-encoding node with a
\* non-empty text in iteration order, negative_prompt the text of the second
\* one, further ones change neither, and with one such node negative_prompt
\* stays "".
C6_PromptAssignment ==
  pc = "done" /\ HoldsGraph
    => /\ result.positive_prompt = NthText(TextsOf(Items), 1)
       /\ result.negative_prompt = NthText(TextsOf(Items), 2)

\* what ffprobe printed for the file, decoded
ProbedInfo == JsonLoads(call.probe.stdout).v
ProbedTags == DictGet(DictGet(ProbedInfo, K_format, JDict(<<>>)), K_tags, JDict(<<>>))
ProbedStreams == DictGet(ProbedInfo, K_streams, JList(<<>>))

\* extract has returned for a video file that ffprobe read
VideoProbed ==
  /\ pc = "returned"
  /\ Found
  /\ Ext \in VideoExts
  /\ call.probe.outcome = "ok"
  /\ JsonLoads(call.probe.stdout).ok
  /\ IsDict(ProbedInfo)
  /\ IsDict(ProbedTags)
  /\ IsList(ProbedStreams)

\* the container has none of the recognized tag fields
NoRecognizedTag ==
  \A i \in 1..Len(metadata_fields) : ~HasKey(ProbedTags, metadata_fields[i])

\* the container has a video stream
HasVideoStream ==
  \E i \in 1..Len(ProbedStreams.items) :
    /\ IsDict(ProbedStreams.items[i])
    /\ DictGet(ProbedStreams.items[i], K_codec_type, JNull) = JStr(VIDEO)

WithNode(graph, pos, node) ==
  JDict(SubSeq(graph.kv, 1, pos) \o <<KV(<<"u">>, node)>>
          \o SubSeq(graph.kv, pos + 1, Len(graph.kv)))

\* the record with graph in the place of its graph
WithGraph(md, graph) ==
  IF HasKey(md, K_prompt) THEN SetItem(md, K_prompt, graph)
  ELSE SetItem(md, K_comment, graph)

\* p, what the function gives for another record, has the extracted
\* fields of result
SameExtracted(p) ==
  /\ p.raised = ""
  /\ \A f \in ExtractedFields : p.result[f] = result[f]

\* C8: for every graph, one more node with an unknown class_type, whatever
\* its inputs and its position, leaves the prompts, seed, steps, cfg,
\* sampler, scheduler and file_info as they are without it.
C8_UnknownNodeIgnored ==
  pc = "done" /\ HoldsGraph
    => \A u \in UnknownNodes : \A pos \in 0..Len(PromptData(metadata).kv) :
         SameExtracted(Parse(WithGraph(metadata, WithNode(PromptData(metadata), pos, u))))

\* a scan of items[i..] that passes over a node's failure: what the node
\* set before it failed is kept and the next node is visited
RECURSIVE LenientScan(_, _, _)
LenientScan(st, items, i) ==
  IF i > Len(items) THEN st
  ELSE LenientScan(NodeStep(st, items[i].v).st, items, i + 1)

\* the only failures of the nodes are failures of int() and float(): every
\* node that is a dict has a dict as its inputs
OnlyCoercionFailures(items) ==
  \A i \in 1..Len(items) : IsDict(items[i].v) => IsDict(InputsOf(items[i].v))

\* C9: a failure of int() or float() in the rules for seed, steps and cfg
\* does not end the scan: the fields set before it are kept, the nodes after
\* the failing one are visited and their fields extracted, and metadata_json
\* and file_info are assembled.
C9_CoercionDoesNotAbort ==
  pc = "done" /\ HoldsGraph /\ Truthy(PromptData(metadata))
              /\ OnlyCoercionFailures(Items) /\ InfoParts(metadata).ok
    => result = Assemble(metadata,
                         LenientScan(ScanState(DefaultResult, FALSE, FALSE), Items, 1)).st.result

\* a RandomNoise node with an integer noise_seed
IsSeedNode(node) ==
  /\ IsDict(node)
  /\ ClassTypeOf(node) = JStr(RandomNoise)
  /\ IsDict(InputsOf(node))
  /\ DictGet(InputsOf(node), K_noise_seed, JNull).t = "int"

\* a KSamplerSelect node with a non-empty sampler_name
IsSamplerNode(node) ==
  /\ IsDict(node)
  /\ ClassTypeOf(node) = JStr(KSamplerSelect)
  /\ IsDict(InputsOf(node))
  /\ Truthy(DictGet(InputsOf(node), K_sampler_name, JStr(<<>>)))

\* the input key of the last of the nodes, or default when there is none
LastInput(nodes, key, default) ==
  IF Len(nodes) = 0 THEN default ELSE Item(InputsOf(nodes[Len(nodes)].v), key)

\* C10: with several RandomNoise nodes that have an integer noise_seed the
\* seed is that of the last one in iteration order, and with several
\* KSamplerSelect nodes that have a non-empty sampler_name the sampler is
\* that of the last one.
C10_LastWriterWins ==
  pc = "done" /\ HoldsGraph
    => /\ result.seed
            = LastInput(SelectSeq(Items, LAMBDA e : IsSeedNode(e.v)), K_noise_seed, JInt(0))
       /\ result.sampler
            = LastInput(SelectSeq(Items, LAMBDA e : IsSamplerNode(e.v)), K_sampler_name, JStr(<<>>))

====
